---- MODULE Spec2Model ----
(***************************************************************************)
(* Model of the background-removal core of bg-removal-api (app/core.py):   *)
(* the asyncio semaphore gate, the lru_cache-memoized durable lookup       *)
(* get_cached_image, save_to_cache and the coroutine remove_background.    *)
(***************************************************************************)
EXTENDS Integers, Sequences, FiniteSets, TLC

\* ------------------------------------------------------------------ bounds
NumTasks == 2       \* remove_background calls made in one run
NumHashes == 1      \* distinct caller-supplied image_hash values
NumImages == 1      \* distinct decodable input payloads
CACHE_SIZE == 1     \* settings.CACHE_SIZE (lru_cache maxsize), scaled down
MaxPermits == 2     \* largest settings.MAX_WORKERS (semaphore permits) tried
MaxOids == 2        \* ObjectId() values generated in one run

\* ------------------------------------------------------------------ values
Tasks == 1..NumTasks
NoTask == 0

\* image_hash argument: None, or a caller-supplied string
NoHash == <<"nohash", 0>>
\* image_hash = "": a caller-supplied string that Python treats as false
EmptyHash == <<"h", 0>>
CallerIds == {<<"h", n>> : n \in 1..NumHashes}
\* values of the image_hash argument
HashArgs == CallerIds \cup {NoHash, EmptyHash}
\* str(uuid.uuid4()): the n-th identifier drawn, never equal to another one
Uuid(n) == <<"u", n>>
UuidIds == {Uuid(n) : n \in 1..NumTasks}
Ids == CallerIds \cup UuidIds

\* byte strings: b"" , raw input images, PNG files; None is Python's None
None == <<"None">>
EmptyBytes == <<>>
RawImage(k) == <<"raw", k, "RGB">>
InputBytes == {EmptyBytes} \cup {RawImage(k) : k \in 1..NumImages}
MatteModes == {"RGB", "RGBA"}
Png(k, mode) == <<"png", k, mode>>
PngBytes == {Png(k, "RGBA") : k \in 1..NumImages}

\* error kinds an exception leaving remove_background can be
NoErr == "none"
DecodeError == "DecodeError"
MattingFailure == "MattingFailure"
EncodeError == "EncodeError"
CacheIOError == "CacheIOError"

VARIABLES
    KEEP_TEMP_FILES, \* settings.KEEP_TEMP_FILES
    MAX_WORKERS,     \* settings.MAX_WORKERS
    value,           \* processing_semaphore._value: free permits
    waiters,         \* processing_semaphore._waiters: FIFO of suspended tasks
    running,         \* task that owns the event loop (NoTask: loop is free)
    memo,            \* lru_cache of get_cached_image: LRU first, MRU last
    disk,            \* TEMP_DIR/<image_hash>.png: content or None (no file)
    pc,              \* position of each call in remove_background
    args,            \* (image_data, image_hash) of each call
    ident,           \* image_hash after line 38-39
    loc,             \* cached / input_image / output_image / output_data
    ret,             \* value returned to the caller (None before)
    err,             \* exception raised to the caller
    nextUuid,        \* number of uuid4 identifiers drawn so far
    holders,         \* history: tasks inside `async with processing_semaphore`
    matteCalls,      \* history: rembg.remove invocations per identifier
    snap,            \* history: memo and disk when the call entered its body
    succeeded,       \* history: (image_data, image_hash, result) of returned calls
    later,           \* history: call made after an equal call had returned
    hist,            \* history: last direct put/get calls on the cache
    rq,              \* the upload request that makes call t: position and locals
    temp,            \* TEMP_DIR/input_<image_hash>.png: content or None
    cdn,             \* Cloudinary: the assets, as (public_id, content)
    images,          \* db.images_collection: the metadata documents
    folders,         \* db.folders_collection
    nextOid,         \* number of ObjectId() values generated so far
    last             \* history: the latest bucket/folder request and its response

\* the state of main.py's endpoints
apiVars == <<rq, temp, cdn, images, folders, nextOid, last>>

vars == <<KEEP_TEMP_FILES, MAX_WORKERS, value, waiters, running, memo, disk, pc, args,
          ident, loc, ret, err, nextUuid, holders, matteCalls, snap,
          succeeded, later, hist, apiVars>>

NoArgs == [data |-> None, hash |-> NoHash]
NoSnap == [memo |-> <<>>, disk |-> <<>>, set |-> FALSE]
\* hist.run: the identifier of the latest uninterrupted run of direct calls on
\* one identifier, its number of completed puts (capped at 2) and the bytes
\* of the last one; hist.justPut: the last call was a completed put;
\* hist.puts: the identifiers of the completed puts since the last get, least
\* recently put first, the last CACHE_SIZE + 1 of them;
\* hist.torn: identifiers whose file was truncated by a put that then failed;
\* hist.obs: what the last completed get returned and what preceded it
\* (inMem, memVal, fileVal: the lru_cache entry and the file it found;
\*  lru: where the identifier stood among CACHE_SIZE + 1 puts;
\*  torn: it read a file that a failed put had truncated)
NoRun == [id |-> NoHash, n |-> 0, val |-> None]
NoObs == [id |-> NoHash, val |-> None, afterPut |-> FALSE, n |-> 0, expect |-> None,
          inMem |-> FALSE, memVal |-> None, fileVal |-> None,
          lru |-> "none", torn |-> FALSE]
\* a request record before the request is received; the latest response
\* before any bucket or folder request
NoFolder == <<"nofolder", 0>>
NoReq == [pc |-> "idle", ep |-> "none", vendor |-> "none", rb |-> FALSE,
          folder |-> NoFolder, data |-> None, hash |-> NoHash,
          status |-> 0, folderOk |-> FALSE, cleanup |-> FALSE, out |-> "none"]
NoLast == [op |-> "none", vendor |-> "none", found |-> FALSE, status |-> 0, arg |-> 0]
NoHist == [run |-> NoRun, justPut |-> FALSE, puts |-> <<>>, torn |-> {}, obs |-> NoObs]

\* ------------------------------------------------------- lru_cache (memo)
MemoKeys(m) == {m[i].k : i \in 1..Len(m)}
MemoVal(m, id) == m[CHOOSE i \in 1..Len(m) : m[i].k = id].v
MemoRemove(m, id) == SelectSeq(m, LAMBDA e : e.k # id)
\* a hit moves the entry to the most-recently-used end
MemoTouch(m, id) == Append(MemoRemove(m, id), [k |-> id, v |-> MemoVal(m, id)])
\* variant of the insertion that never evicts
MemoInsertUnbounded(m, id, v) == Append(m, [k |-> id, v |-> v])

\* a miss stores the computed result, evicting the least recently used entry
MemoInsert(m, id, v) ==
    Append(IF Len(m) >= CACHE_SIZE THEN Tail(m) ELSE m, [k |-> id, v |-> v])

\* body of get_cached_image: the file's content, or None when it is absent
read_file(d, id) == d[id]

\* get_cached_image through its lru_cache wrapper: result and new memo
get_cached_image(m, d, id) ==
    IF id \in MemoKeys(m)
    THEN [ret |-> MemoVal(m, id), memo |-> MemoTouch(m, id)]
    ELSE [ret |-> read_file(d, id), memo |-> MemoInsert(m, id, read_file(d, id))]

\* the lookup opens a file exactly when the memo misses and the file exists
ReadsFile(m, d, id) == id \notin MemoKeys(m) /\ d[id] # None

\* variant of save_to_cache that opens the file for writing and never
\* writes the data
save_to_cache_unwritten(d, id, data) ==
    IF KEEP_TEMP_FILES THEN [d EXCEPT ![id] = EmptyBytes] ELSE d

\* save_to_cache: writes the file only when KEEP_TEMP_FILES is set
save_to_cache(d, id, data) ==
    IF KEEP_TEMP_FILES THEN [d EXCEPT ![id] = data] ELSE d

\* a failing save_to_cache: open() fails (file untouched) or write() fails
\* after open(..., "wb") truncated the file
FailedWrites(d, id) == {d, [d EXCEPT ![id] = EmptyBytes]}

\* ------------------------------------------------------ image operations
\* Image.open(BytesIO(image_data)): raises on bytes that are no image
CanDecode(b) == b \in {RawImage(k) : k \in 1..NumImages}
\* a decoded image is <<"img", picture, mode>>
ImageOpen(b) == <<"img", b[2], b[3]>>
\* rembg.remove: opaque, keeps the picture, output mode is its own choice
Matte(img, mode) == <<"img", img[2], mode>>
\* variant of lines 58-59 that keeps the mode rembg returned
NormalizeSkipped(img) == img
\* lines 58-59: convert to RGBA unless already RGBA
Normalize(img) == IF img[3] # "RGBA" THEN <<"img", img[2], "RGBA">> ELSE img
\* lines 62-69: PNG encoding of the image
EncodePng(img) == Png(img[2], img[3])
\* Python truthiness of `cached`: None and b"" are falsy
Truthy(b) == b # None /\ b # EmptyBytes

\* ------------------------------------------------------------------ Init
\* TEMP_DIR outlives the process (makedirs(..., exist_ok=True)): it is empty,
\* or holds the PNG an earlier run kept for the first caller identifier
InitDisks == {[i \in Ids |-> None],
              [i \in Ids |-> IF i = <<"h", 1>> THEN Png(1, "RGBA") ELSE None]}

\* the state of a fresh process whose semaphore was built with n permits
InitWith(n) ==
    /\ KEEP_TEMP_FILES \in BOOLEAN
    /\ MAX_WORKERS = n
    /\ value = n
    /\ waiters = <<>>
    /\ running = NoTask
    /\ memo = <<>>
    /\ disk \in InitDisks
    /\ pc = [t \in Tasks |-> "idle"]
    /\ args = [t \in Tasks |-> NoArgs]
    /\ ident = [t \in Tasks |-> NoHash]
    /\ loc = [t \in Tasks |-> None]
    /\ ret = [t \in Tasks |-> None]
    /\ err = [t \in Tasks |-> NoErr]
    /\ nextUuid = 0
    /\ holders = {}
    /\ matteCalls = [i \in Ids |-> 0]
    /\ snap = [t \in Tasks |-> NoSnap]
    /\ succeeded = {}
    /\ later = [t \in Tasks |-> FALSE]
    /\ hist = NoHist
    /\ rq = [t \in Tasks |-> NoReq]
    /\ temp = [i \in UuidIds |-> None]
    /\ cdn = {}
    /\ images = {}
    /\ folders = {}
    /\ nextOid = 0
    /\ last = NoLast

Init == InitWith(MaxPermits)

\* any configured permit count
GateInit == \E n \in 1..MaxPermits : InitWith(n)

\* --------------------------------------------------------------- actions
\* a caller awaits remove_background(image_data, image_hash)
Call(t, b, h) ==
    /\ pc[t] = "idle"
    /\ running = NoTask       \* the caller itself runs on the event loop
    /\ \A u \in Tasks : u < t => pc[u] # "idle"
    /\ pc' = [pc EXCEPT ![t] = "acquire"]
    /\ args' = [args EXCEPT ![t] = [data |-> b, hash |-> h]]
    /\ later' = [later EXCEPT ![t] = h \in CallerIds /\ \E s \in succeeded : s[1] = b /\ s[2] = h]
    /\ UNCHANGED <<apiVars, hist, MAX_WORKERS, KEEP_TEMP_FILES, value, waiters, running, memo, disk, ident,
                   loc, ret, err, nextUuid, holders, matteCalls, snap, succeeded>>

\* variant of line 36 that hands the body to a worker thread instead of
\* entering the semaphore: no permit is taken and the loop stays free
AcquireUngated(t) ==
    /\ pc[t] = "acquire"
    /\ pc' = [pc EXCEPT ![t] = "lookup"]
    /\ holders' = holders \cup {t}
    /\ UNCHANGED <<apiVars, hist, MAX_WORKERS, KEEP_TEMP_FILES, value, waiters, running, memo, disk,
                   args, ident, loc, ret, err, nextUuid, matteCalls, snap,
                   succeeded, later>>

\* line 36, __aenter__: a free permit is taken without yielding to the
\* loop; otherwise the task queues up and suspends
Acquire(t) ==
    /\ pc[t] = "acquire"
    /\ running = NoTask
    /\ IF value > 0
       THEN /\ value' = value - 1
            /\ waiters' = waiters
            /\ running' = t
            /\ holders' = holders \cup {t}
            /\ pc' = [pc EXCEPT ![t] = "lookup"]
       ELSE /\ value' = value
            /\ waiters' = Append(waiters, t)
            /\ running' = running
            /\ holders' = holders
            /\ pc' = [pc EXCEPT ![t] = "waiting"]
    /\ UNCHANGED <<apiVars, hist, MAX_WORKERS, KEEP_TEMP_FILES, memo, disk, args, ident, loc, ret, err,
                   nextUuid, matteCalls, snap, succeeded, later>>

\* `not image_hash`: None and the empty string
FalsyHash(h) == h \in {NoHash, EmptyHash}

\* variant of lines 38-39 that draws a uuid4 whatever the caller passed
ResolveIdFresh(h, n) == Uuid(n + 1)

\* lines 38-39: the identifier the call goes on with, n uuids drawn so far
ResolveId(h, n) == IF FalsyHash(h) THEN Uuid(n + 1) ELSE h

\* lines 38-44: resolve the identifier, look it up, return it when truthy
Lookup(t) ==
    /\ pc[t] = "lookup"
    /\ LET fresh == FalsyHash(args[t].hash)
           id == ResolveId(args[t].hash, nextUuid)
           r == get_cached_image(memo, disk, id)
       IN /\ ident' = [ident EXCEPT ![t] = id]
          /\ nextUuid' = IF fresh THEN nextUuid + 1 ELSE nextUuid
          /\ snap' = [snap EXCEPT ![t] = [memo |-> memo, disk |-> disk, set |-> TRUE]]
          /\ \/ /\ memo' = r.memo
                /\ loc' = [loc EXCEPT ![t] = r.ret]
                /\ pc' = [pc EXCEPT ![t] = IF Truthy(r.ret) THEN "hit" ELSE "decode"]
                /\ err' = err
             \/ /\ ReadsFile(memo, disk, id)      \* open()/read() raises
                /\ memo' = memo
                /\ loc' = loc
                /\ pc' = [pc EXCEPT ![t] = "raise"]
                /\ err' = [err EXCEPT ![t] = CacheIOError]
    /\ UNCHANGED <<apiVars, hist, MAX_WORKERS, KEEP_TEMP_FILES, value, waiters, running, disk, args, ret,
                   holders, matteCalls, succeeded, later>>

\* line 47: Image.open
Decode(t) ==
    /\ pc[t] = "decode"
    /\ IF CanDecode(args[t].data)
       THEN /\ loc' = [loc EXCEPT ![t] = ImageOpen(args[t].data)]
            /\ pc' = [pc EXCEPT ![t] = "matte"]
            /\ err' = err
       ELSE /\ loc' = loc
            /\ pc' = [pc EXCEPT ![t] = "raise"]
            /\ err' = [err EXCEPT ![t] = DecodeError]
    /\ UNCHANGED <<apiVars, hist, MAX_WORKERS, KEEP_TEMP_FILES, value, waiters, running, memo, disk, args,
                   ident, ret, nextUuid, holders, matteCalls, snap, succeeded,
                   later>>

\* variant of line 50 that awaits the matting in an executor: the loop is
\* yielded while rembg.remove runs
MatteStartYield(t) ==
    /\ pc[t] = "matte"
    /\ pc' = [pc EXCEPT ![t] = "matting"]
    /\ matteCalls' = [matteCalls EXCEPT ![ident[t]] = @ + 1]
    /\ running' = NoTask
    /\ UNCHANGED <<apiVars, hist, MAX_WORKERS, KEEP_TEMP_FILES, value, waiters, memo, disk, args,
                   ident, loc, ret, err, nextUuid, holders, snap, succeeded,
                   later>>

\* line 50: rembg.remove is entered (a blocking call: the loop is not yielded)
MatteStart(t) ==
    /\ pc[t] = "matte"
    /\ pc' = [pc EXCEPT ![t] = "matting"]
    /\ matteCalls' = [matteCalls EXCEPT ![ident[t]] = @ + 1]
    /\ UNCHANGED <<apiVars, hist, MAX_WORKERS, KEEP_TEMP_FILES, value, waiters, running, memo, disk, args,
                   ident, loc, ret, err, nextUuid, holders, snap, succeeded,
                   later>>

\* lines 50-59: rembg.remove returns an image, normalised to RGBA, or raises
MatteEnd(t) ==
    /\ pc[t] = "matting"
    /\ \/ \E m \in MatteModes :
            /\ loc' = [loc EXCEPT ![t] = Normalize(Matte(loc[t], m))]
            /\ pc' = [pc EXCEPT ![t] = "encode"]
            /\ err' = err
       \/ /\ loc' = loc
          /\ pc' = [pc EXCEPT ![t] = "raise"]
          /\ err' = [err EXCEPT ![t] = MattingFailure]
    /\ UNCHANGED <<apiVars, hist, MAX_WORKERS, KEEP_TEMP_FILES, value, waiters, running, memo, disk, args,
                   ident, ret, nextUuid, holders, matteCalls, snap, succeeded,
                   later>>

\* lines 62-69: output_image.save(...PNG...) and getvalue(), or save raises
Encode(t) ==
    /\ pc[t] = "encode"
    /\ \/ /\ loc' = [loc EXCEPT ![t] = EncodePng(loc[t])]
          /\ pc' = [pc EXCEPT ![t] = "save"]
          /\ err' = err
       \/ /\ loc' = loc
          /\ pc' = [pc EXCEPT ![t] = "raise"]
          /\ err' = [err EXCEPT ![t] = EncodeError]
    /\ UNCHANGED <<apiVars, hist, MAX_WORKERS, KEEP_TEMP_FILES, value, waiters, running, memo, disk, args,
                   ident, ret, nextUuid, holders, matteCalls, snap, succeeded,
                   later>>

\* variant of line 71 that writes the file whatever KEEP_TEMP_FILES says
SaveUnflagged(t) ==
    /\ pc[t] = "save"
    /\ disk' = [disk EXCEPT ![ident[t]] = loc[t]]
    /\ pc' = [pc EXCEPT ![t] = "return"]
    /\ UNCHANGED <<apiVars, hist, MAX_WORKERS, KEEP_TEMP_FILES, value, waiters, running, memo, args, ident,
                   loc, ret, err, nextUuid, holders, matteCalls, snap, succeeded,
                   later>>

\* line 71: save_to_cache(image_hash, output_data), or its open/write raises
Save(t) ==
    /\ pc[t] = "save"
    /\ \/ /\ disk' = save_to_cache(disk, ident[t], loc[t])
          /\ pc' = [pc EXCEPT ![t] = "return"]
          /\ err' = err
       \/ /\ KEEP_TEMP_FILES
          /\ disk' \in FailedWrites(disk, ident[t])
          /\ pc' = [pc EXCEPT ![t] = "raise"]
          /\ err' = [err EXCEPT ![t] = CacheIOError]
    /\ UNCHANGED <<apiVars, hist, MAX_WORKERS, KEEP_TEMP_FILES, value, waiters, running, memo, args, ident,
                   loc, ret, nextUuid, holders, matteCalls, snap, succeeded,
                   later>>

\* Semaphore.release() in __aexit__ of task t, whose call ends at newpc:
\* the permit goes to the first waiter, or back to the counter
Release(t, newpc) ==
    /\ holders' = IF waiters = <<>> THEN holders \ {t}
                  ELSE (holders \ {t}) \cup {Head(waiters)}
    /\ value' = IF waiters = <<>> THEN value + 1 ELSE value
    /\ running' = IF waiters = <<>> THEN NoTask ELSE Head(waiters)
    /\ pc' = IF waiters = <<>> THEN [pc EXCEPT ![t] = newpc]
             ELSE [pc EXCEPT ![t] = newpc, ![Head(waiters)] = "lookup"]
    /\ waiters' = IF waiters = <<>> THEN waiters ELSE Tail(waiters)

\* variant of lines 44 and 77 that returns without releasing the permit
\* (acquire()/release() with the release after the return statements)
ReturnLeak(t) ==
    /\ pc[t] \in {"hit", "return"}
    /\ pc' = [pc EXCEPT ![t] = "done"]
    /\ holders' = holders \ {t}
    /\ running' = NoTask
    /\ ret' = [ret EXCEPT ![t] = loc[t]]
    /\ loc' = [loc EXCEPT ![t] = None]
    /\ snap' = [snap EXCEPT ![t] = NoSnap]
    /\ succeeded' = succeeded \cup {<<args[t].data, args[t].hash, loc[t]>>}
    /\ UNCHANGED <<apiVars, hist, MAX_WORKERS, KEEP_TEMP_FILES, value, waiters, memo, disk, args,
                   ident, err, nextUuid, matteCalls, later>>

\* lines 44 and 77: return cached / return output_data, leaving the
\* `async with` block
Return(t) ==
    /\ pc[t] \in {"hit", "return"}
    /\ Release(t, "done")
    /\ ret' = [ret EXCEPT ![t] = loc[t]]
    /\ loc' = [loc EXCEPT ![t] = None]
    /\ snap' = [snap EXCEPT ![t] = NoSnap]
    /\ succeeded' = succeeded \cup {<<args[t].data, args[t].hash, loc[t]>>}
    /\ UNCHANGED <<apiVars, hist, MAX_WORKERS, KEEP_TEMP_FILES, memo, disk, args, ident, err, nextUuid,
                   matteCalls, later>>

\* variant of lines 78-80 in which the permit is released on the success
\* path only (acquire()/release() without try/finally)
RaiseLeak(t) ==
    /\ pc[t] = "raise"
    /\ pc' = [pc EXCEPT ![t] = "failed"]
    /\ holders' = holders \ {t}
    /\ running' = NoTask
    /\ loc' = [loc EXCEPT ![t] = None]
    /\ snap' = [snap EXCEPT ![t] = NoSnap]
    /\ UNCHANGED <<apiVars, hist, MAX_WORKERS, KEEP_TEMP_FILES, value, waiters, memo, disk, args,
                   ident, ret, err, nextUuid, matteCalls, succeeded, later>>

\* variant of lines 78-80 that logs the exception and returns the input
\* bytes instead of re-raising
RaiseSwallow(t) ==
    /\ pc[t] = "raise"
    /\ Release(t, "done")
    /\ ret' = [ret EXCEPT ![t] = args[t].data]
    /\ loc' = [loc EXCEPT ![t] = None]
    /\ snap' = [snap EXCEPT ![t] = NoSnap]
    /\ UNCHANGED <<apiVars, hist, MAX_WORKERS, KEEP_TEMP_FILES, memo, disk, args, ident, err,
                   nextUuid, matteCalls, succeeded, later>>

\* lines 78-80: the exception is logged and re-raised through __aexit__
Raise(t) ==
    /\ pc[t] = "raise"
    /\ Release(t, "failed")
    /\ loc' = [loc EXCEPT ![t] = None]
    /\ snap' = [snap EXCEPT ![t] = NoSnap]
    /\ UNCHANGED <<apiVars, hist, MAX_WORKERS, KEEP_TEMP_FILES, memo, disk, args, ident, ret, err,
                   nextUuid, matteCalls, succeeded, later>>

\* ---------------------------------------------------- main.py: values
Vendors == {"A", "B"}
\* an ObjectId, and the string str(ObjectId) that requests carry; Str(0) is
\* a string that is no ObjectId
Oid(n) == <<"oid", n>>
Str(n) == <<"str", n>>
FolderArgs == {NoFolder} \cup {Str(n) : n \in 0..MaxOids}
\* ObjectId(s): raises InvalidId unless s is the string of an ObjectId
ValidOid(s) == s[1] = "str" /\ s[2] >= 1
ObjectId(s) == Oid(s[2])
\* public_id f"vendor_{vendor_id}_{image_hash}" followed by its suffixes
PublicId(v, h) == <<v, h, <<>> >>
Thumb(pid) == <<pid[1], pid[2], Append(pid[3], "_thumb")>>
EndsWithThumb(pid) == pid[3] # <<>> /\ pid[3][Len(pid[3])] = "_thumb"
\* cloudinary.uploader.upload(..., overwrite=True) and destroy
CdnIds(c) == {a[1] : a \in c}
Destroy(c, pid) == {a \in c : a[1] # pid}
Uploaded(c, pid, data) == Destroy(c, pid) \cup {<<pid, data>>}
\* Cloudinary accepts image files only
IsImage(b) == CanDecode(b) \/ b \in PngBytes

\* ------------------------------ upload_image, remove_background_endpoint
Endpoints == {"upload_image", "remove_background_endpoint"}
\* the loop is running a request up to its response
Busy == \E t \in Tasks : rq[t].pc = "received"

\* variant of the `if remove_bg` tests that always processes
InvokesAlways(rb) == TRUE
\* main.py:311 and main.py:753: remove_background is called iff remove_bg
Invokes(rb) == rb

\* main.py:301-308 and 744-753: the body is read, image_hash is drawn and,
\* when asked, remove_background(image_data, image_hash) is called
Receive(t, ep, v, rb, f, b) ==
    /\ rq[t].pc = "idle" /\ pc[t] = "idle"
    /\ \A u \in Tasks : u < t => rq[u].pc # "idle"
    /\ ~Busy /\ running = NoTask
    /\ nextOid < MaxOids
    /\ rq' = [rq EXCEPT ![t] = [NoReq EXCEPT !.pc = "received", !.ep = ep,
                                   !.vendor = v, !.rb = rb, !.folder = f,
                                   !.data = b, !.hash = Uuid(nextUuid + 1)]]
    /\ nextUuid' = nextUuid + 1
    /\ IF Invokes(rb)
       THEN /\ pc' = [pc EXCEPT ![t] = "acquire"]
            /\ args' = [args EXCEPT ![t] = [data |-> b, hash |-> Uuid(nextUuid + 1)]]
       ELSE UNCHANGED <<pc, args>>
    /\ UNCHANGED <<hist, MAX_WORKERS, KEEP_TEMP_FILES, value, waiters, running, memo, disk,
                   ident, loc, ret, err, holders, matteCalls, snap, succeeded,
                   later, temp, cdn, images, folders, nextOid, last>>

\* main.py:753: what is written to the temporary file
Result(t) == IF rq[t].rb THEN ret[t] ELSE rq[t].data
\* main.py:799-803: the folder exists and belongs to the vendor
FolderValid(f, v) == ValidOid(f) /\ [id |-> ObjectId(f), vendor |-> v] \in folders

\* where the rest of the handler stops: remove_background raised, the
\* temporary file could not be written, an upload raised, os.remove raised,
\* the folder was rejected, insert_one raised, or nothing failed
Outcomes == {"process", "write", "upload", "thumb", "remove", "folder", "insert", "ok"}
Possible(t, out) ==
    LET r == rq[t]
        isRbe == r.ep = "remove_background_endpoint"
    IN  IF pc[t] = "failed" THEN out = "process"
        ELSE CASE out = "process" -> FALSE
               [] out \in {"write", "upload"} -> TRUE
               [] out = "thumb" -> IsImage(Result(t))
               [] out = "remove" -> ~isRbe /\ IsImage(Result(t)) /\ ~KEEP_TEMP_FILES
               [] out = "folder" -> isRbe /\ IsImage(Result(t)) /\ r.folder # NoFolder
               [] OTHER -> /\ IsImage(Result(t))
                           /\ isRbe => (r.folder = NoFolder \/ FolderValid(r.folder, r.vendor))

\* ------------------------------------------ direct calls on the cache
CacheIds == CallerIds \cup {Uuid(1)}
CacheBytes == {EmptyBytes} \cup PngBytes

\* the puts since the last get, as a cache of capacity CACHE_SIZE + 1 would
\* order them
PutsAfter(ps, id) ==
    LET q == Append(SelectSeq(ps, LAMBDA k : k # id), id)
    IN  IF Len(q) > CACHE_SIZE + 1 THEN Tail(q) ELSE q
PutIds(ps) == {ps[i] : i \in 1..Len(ps)}

HistPut(id, data) ==
    [run |-> [id |-> id,
              n |-> IF hist.run.id = id THEN (IF hist.run.n >= 2 THEN 2 ELSE hist.run.n + 1) ELSE 1,
              val |-> data],
     justPut |-> TRUE,
     puts |-> PutsAfter(hist.puts, id),
     torn |-> IF KEEP_TEMP_FILES THEN hist.torn \ {id} ELSE hist.torn,
     obs |-> NoObs]
HistGet(id, v) ==
    [run |-> IF hist.run.id = id THEN hist.run ELSE NoRun,
     justPut |-> FALSE,
     puts |-> <<>>,
     torn |-> hist.torn,
     obs |-> [id |-> id, val |-> v,
              afterPut |-> hist.justPut /\ hist.run.id = id,
              n |-> IF hist.run.id = id THEN hist.run.n ELSE 0,
              expect |-> IF hist.run.id = id THEN hist.run.val ELSE None,
              inMem |-> id \in MemoKeys(memo),
              memVal |-> IF id \in MemoKeys(memo) THEN MemoVal(memo, id) ELSE None,
              fileVal |-> disk[id],
              lru |-> IF Len(hist.puts) <= CACHE_SIZE \/ id \notin PutIds(hist.puts)
                      THEN "none"
                      ELSE IF hist.puts[1] = id THEN "evicted" ELSE "hit",
              torn |-> id \notin MemoKeys(memo) /\ id \in hist.torn]]
\* a call that raised: the histories of completed calls start afresh; a put
\* that failed after open(..., "wb") leaves the file truncated
HistFail(d) ==
    [NoHist EXCEPT !.torn = hist.torn \cup {i \in CacheIds : d[i] # disk[i]}]

processVars == <<value, waiters, running, pc, args, ident, loc, ret, err,
                 nextUuid, holders, matteCalls, snap, succeeded, later>>

\* get(id): a direct call of get_cached_image(image_hash)
Get(id) ==
    /\ running = NoTask
    /\ \/ /\ memo' = get_cached_image(memo, disk, id).memo
          /\ hist' = HistGet(id, get_cached_image(memo, disk, id).ret)
       \/ /\ ReadsFile(memo, disk, id)      \* open()/read() raises
          /\ memo' = memo
          /\ hist' = HistFail(disk)
    /\ UNCHANGED <<KEEP_TEMP_FILES, MAX_WORKERS, disk, processVars, apiVars>>

\* put(id, X): a direct call of save_to_cache(image_hash, image_data)
Put(id, data) ==
    /\ running = NoTask
    /\ \/ /\ disk' = save_to_cache(disk, id, data)
          /\ hist' = HistPut(id, data)
       \/ /\ KEEP_TEMP_FILES
          /\ disk' \in FailedWrites(disk, id)
          /\ hist' = HistFail(disk')
    /\ UNCHANGED <<KEEP_TEMP_FILES, MAX_WORKERS, memo, processVars, apiVars>>

NextCache ==
    \/ \E id \in CacheIds : Get(id)
    \/ \E id \in CacheIds, data \in CacheBytes : Put(id, data)

CacheSpec == Init /\ [][NextCache]_vars

\* ------------------------------------------------------- remove_background
Next ==
    \/ \E t \in Tasks, b \in InputBytes, h \in CallerIds \cup {NoHash} : Call(t, b, h)
    \/ \E t \in Tasks : Acquire(t)
    \/ \E t \in Tasks : Lookup(t)
    \/ \E t \in Tasks : Decode(t)
    \/ \E t \in Tasks : MatteStart(t)
    \/ \E t \in Tasks : MatteEnd(t)
    \/ \E t \in Tasks : Encode(t)
    \/ \E t \in Tasks : Save(t)
    \/ \E t \in Tasks : Return(t)
    \/ \E t \in Tasks : Raise(t)

Spec == Init /\ [][Next]_vars

\* the steps of call t that the event loop runs once the call has been made
\* (rembg.remove is assumed to terminate)
TaskStep(t) ==
    \/ Acquire(t) \/ Lookup(t) \/ Decode(t) \/ MatteStart(t) \/ MatteEnd(t)
    \/ Encode(t) \/ Save(t) \/ Return(t) \/ Raise(t)

\* calls of one decodable payload with every kind of image_hash argument:
\* None, the empty string, a caller identifier
IdNext ==
    \/ \E t \in Tasks, h \in HashArgs : Call(t, RawImage(1), h)
    \/ \E t \in Tasks : TaskStep(t)

IdSpec == Init /\ [][IdNext]_vars

\* calls of one decodable payload with the first caller identifier or
\* none: the gate does not look at the arguments
LiveNext ==
    \/ \E t \in Tasks, h \in {<<"h", 1>>, NoHash} : Call(t, RawImage(1), h)
    \/ \E t \in Tasks : TaskStep(t)

\* the event loop keeps running every task that is ready
LiveSpec == GateInit /\ [][LiveNext]_vars /\ \A t \in Tasks : WF_vars(TaskStep(t))

\* main.py:310-409 and 753-887, from the result of remove_background to the
\* response; nothing in it yields to the loop
Complete(t) ==
    /\ rq[t].pc = "received" /\ running = NoTask
    /\ pc[t] \in {"idle", "done", "failed"}
    /\ \E out \in Outcomes :
        LET r == rq[t]
            isRbe == r.ep = "remove_background_endpoint"
            pid == PublicId(r.vendor, r.hash)
            written == [temp EXCEPT ![r.hash] = Result(t)]
            both == Uploaded(Uploaded(cdn, pid, Result(t)), Thumb(pid), Result(t))
            scheduled == isRbe /\ out \in {"folder", "insert", "ok"}
        IN  /\ Possible(t, out)
            /\ temp' \in CASE out = "process" -> {temp}
                         [] out = "write" -> {temp, [temp EXCEPT ![r.hash] = EmptyBytes]}
                         [] out \in {"insert", "ok"} /\ ~isRbe /\ ~KEEP_TEMP_FILES -> {temp}
                         [] OTHER -> {written}
            /\ cdn' = CASE out \in {"process", "write", "upload"} -> cdn
                        [] out = "thumb" -> Uploaded(cdn, pid, Result(t))
                        [] OTHER -> both
            /\ images' = IF out = "ok"
                         THEN images \cup {[id |-> Oid(nextOid + 1), vendor |-> r.vendor,
                                             pub |-> pid, folder |-> r.folder]}
                         ELSE images
            /\ nextOid' = IF out \in {"insert", "ok"} THEN nextOid + 1 ELSE nextOid
            /\ rq' = [rq EXCEPT ![t].pc = IF scheduled THEN "responded" ELSE "ended",
                                ![t].status = IF out = "ok" THEN 200 ELSE 500,
                                ![t].folderOk = r.folder = NoFolder \/ FolderValid(r.folder, r.vendor),
                                ![t].cleanup = scheduled,
                                ![t].out = out]
            /\ last' = [NoLast EXCEPT !.op = r.ep, !.status = IF out = "ok" THEN 200 ELSE 500]
    /\ UNCHANGED <<hist, MAX_WORKERS, KEEP_TEMP_FILES, value, waiters, running, memo, disk,
                   pc, args, ident, loc, ret, err, nextUuid, holders, matteCalls,
                   snap, succeeded, later, folders>>

\* utils.py:9-15, run as a background task after the response: the file is
\* removed unless KEEP_TEMP_FILES; a failing os.remove is only logged
Cleanup(t) ==
    /\ rq[t].pc = "responded" /\ ~Busy /\ running = NoTask
    /\ IF ~KEEP_TEMP_FILES /\ temp[rq[t].hash] # None
       THEN \/ /\ temp' = [temp EXCEPT ![rq[t].hash] = None]
               /\ rq' = [rq EXCEPT ![t].pc = "ended", ![t].cleanup = FALSE]
            \/ /\ temp' = temp                     \* os.remove raises
               /\ rq' = [rq EXCEPT ![t].pc = "ended", ![t].cleanup = FALSE,
                                   ![t].out = "remove"]
       ELSE /\ temp' = temp
            /\ rq' = [rq EXCEPT ![t].pc = "ended", ![t].cleanup = FALSE]
    /\ UNCHANGED <<hist, MAX_WORKERS, KEEP_TEMP_FILES, value, waiters, running, memo, disk,
                   pc, args, ident, loc, ret, err, nextUuid, holders, matteCalls,
                   snap, succeeded, later, cdn, images, folders, nextOid, last>>

\* main.py:1087-1111, create_vendor_folder
CreateFolder(v) ==
    /\ ~Busy /\ running = NoTask
    /\ nextOid < MaxOids
    /\ \/ /\ folders' = folders \cup {[id |-> Oid(nextOid + 1), vendor |-> v]}
          /\ nextOid' = nextOid + 1
          /\ last' = [NoLast EXCEPT !.op = "create_vendor_folder", !.status = 201]
       \/ /\ UNCHANGED <<folders, nextOid>>       \* insert_one raises
          /\ last' = [NoLast EXCEPT !.op = "create_vendor_folder", !.status = 500]
    /\ UNCHANGED <<hist, MAX_WORKERS, KEEP_TEMP_FILES, value, waiters, running, memo, disk,
                   pc, args, ident, loc, ret, err, nextUuid, holders, matteCalls,
                   snap, succeeded, later, rq, temp, cdn, images>>

\* one upload request of vendor A with a decodable payload, with or without
\* background removal, naming no folder or the first folder created (its
\* own, another vendor's, or none yet)
UploadNext ==
    \/ \E ep \in Endpoints, rb \in BOOLEAN, f \in {NoFolder, Str(1)} :
            Receive(1, ep, "A", rb, f, RawImage(1))
    \/ \E t \in Tasks : TaskStep(t)
    \/ \E t \in Tasks : Complete(t)
    \/ \E t \in Tasks : Cleanup(t)
    \/ \E v \in Vendors : CreateFolder(v)

\* TEMP_DIR holds no cache file when the process starts
ApiInit == Init /\ disk = [i \in Ids |-> None]

UploadSpec == ApiInit /\ [][UploadNext]_vars

\* ------------------------------------------ bucket and folder endpoints
ImageIdArgs == {Str(n) : n \in 1..MaxOids}
\* find_one({"_id": ObjectId(imageId)}) and the same with "vendor_id"
FindById(s) == {d \in images : d.id = ObjectId(s)}
FindOwned(s, v) == {d \in images : d.id = ObjectId(s) /\ d.vendor = v}
\* `except Exception as e: raise HTTPException(status_code=500, ...)`: the
\* HTTPException raised inside the try block is an Exception too
CaughtStatus(raised) == 500
Response(op, v, found, status, n) ==
    [op |-> op, vendor |-> v, found |-> found, status |-> status, arg |-> n]
coreVars == <<hist, MAX_WORKERS, KEEP_TEMP_FILES, value, waiters, running, memo, disk,
              pc, args, ident, loc, ret, err, nextUuid, holders, matteCalls,
              snap, succeeded, later>>

\* main.py:411-458, add_to_bucket
AddToBucket(s, v) ==
    /\ ~Busy /\ running = NoTask
    /\ IF ~ValidOid(s) \/ FindById(s) = {}
       THEN /\ last' = Response("add_to_bucket", "none", FALSE,
                                IF ValidOid(s) THEN CaughtStatus(404) ELSE 500, 0)
            /\ UNCHANGED <<images, nextOid>>
       ELSE \E d \in FindById(s) :
              \/ /\ nextOid < MaxOids
                 /\ images' = images \cup {[d EXCEPT !.id = Oid(nextOid + 1), !.vendor = v]}
                 /\ nextOid' = nextOid + 1
                 /\ last' = Response("add_to_bucket", "none", TRUE, 200, 0)
              \/ /\ UNCHANGED <<images, nextOid>>       \* insert_one raises
                 /\ last' = Response("add_to_bucket", "none", TRUE, 500, 0)
    /\ UNCHANGED <<coreVars, rq, temp, cdn, folders>>

\* main.py:461-498, remove_from_bucket: the asset and its thumbnail are
\* destroyed, then the document is deleted; each call may raise
RemoveFromBucket(s, v) ==
    /\ ~Busy /\ running = NoTask
    /\ IF ~ValidOid(s) \/ FindOwned(s, v) = {}
       THEN /\ last' = Response("remove_from_bucket", v, FALSE,
                                IF ValidOid(s) THEN CaughtStatus(404) ELSE 500, 0)
            /\ UNCHANGED <<images, cdn>>
       ELSE \E d \in FindOwned(s, v), stop \in {"destroy", "thumb", "delete", "ok"} :
              LET one == Destroy(cdn, d.pub)
                  two == IF EndsWithThumb(d.pub) THEN one ELSE Destroy(one, Thumb(d.pub))
              IN  /\ stop = "thumb" => ~EndsWithThumb(d.pub)
                  /\ cdn' = CASE stop = "destroy" -> cdn
                              [] stop = "thumb" -> one
                              [] OTHER -> two
                  /\ images' = IF stop = "ok" THEN images \ {d} ELSE images
                  /\ last' = Response("remove_from_bucket", v, TRUE,
                                      IF stop = "ok" THEN 200 ELSE 500, 0)
    /\ UNCHANGED <<coreVars, rq, temp, folders, nextOid>>

\* main.py:501-561, update_image_metadata, here of the folder_id field
UpdateImageMetadata(s, v, f) ==
    /\ ~Busy /\ running = NoTask
    /\ IF ~ValidOid(s) \/ FindOwned(s, v) = {}
       THEN /\ last' = Response("update_image_metadata", "none", FALSE,
                                IF ValidOid(s) THEN CaughtStatus(404) ELSE 500, 0)
            /\ images' = images
       ELSE \E d \in FindOwned(s, v) :
              \/ /\ images' = (images \ {d}) \cup {[d EXCEPT !.folder = f]}
                 /\ last' = Response("update_image_metadata", "none", TRUE, 200, 0)
              \/ /\ images' = images                   \* update_one raises
                 /\ last' = Response("update_image_metadata", "none", TRUE, 500, 0)
    /\ UNCHANGED <<coreVars, rq, temp, cdn, folders, nextOid>>

\* main.py:564-690, process_image: an eager transformation of the asset and
\* a new document under a derived public_id; explicit() raises when the
\* asset is gone
ProcessImage(s, v) ==
    /\ ~Busy /\ running = NoTask
    /\ IF ~ValidOid(s) \/ FindOwned(s, v) = {}
       THEN /\ last' = Response("process_image", "none", FALSE,
                                IF ValidOid(s) THEN CaughtStatus(404) ELSE 500, 0)
            /\ UNCHANGED <<images, nextOid>>
       ELSE \E d \in FindOwned(s, v) :
              \/ /\ d.pub \in CdnIds(cdn) /\ nextOid < MaxOids
                 /\ images' = images \cup
                        {[d EXCEPT !.id = Oid(nextOid + 1), !.vendor = v,
                                   !.pub = <<d.pub[1], d.pub[2], Append(d.pub[3], "_processed")>>]}
                 /\ nextOid' = nextOid + 1
                 /\ last' = Response("process_image", "none", TRUE, 200, 0)
              \/ /\ UNCHANGED <<images, nextOid>>   \* explicit or insert_one raises
                 /\ last' = Response("process_image", "none", TRUE, 500, 0)
    /\ UNCHANGED <<coreVars, rq, temp, cdn, folders>>

\* images_collection.find({"folder_id": oid}): the field equals the ObjectId
FolderImages(oid) == {d \in images : d.folder = oid}
DestroyAll(c, ds) == {a \in c : a[1] \notin {d.pub : d \in ds}}

\* main.py:1113-1155, delete_folder: every document found for the folder
\* loses its asset and is deleted, then the folder document is deleted
DeleteFolder(s) ==
    /\ ~Busy /\ running = NoTask
    /\ IF ~ValidOid(s) \/ {g \in folders : g.id = ObjectId(s)} = {}
       THEN /\ last' = Response("delete_folder", "none", FALSE, 500, 0)
            /\ UNCHANGED <<images, cdn, folders>>
       ELSE \/ /\ images' = images \ FolderImages(ObjectId(s))
               /\ cdn' = DestroyAll(cdn, FolderImages(ObjectId(s)))
               /\ folders' = {g \in folders : g.id # ObjectId(s)}
               /\ last' = Response("delete_folder", "none", TRUE, 200, s[2])
            \/ \E done \in SUBSET FolderImages(ObjectId(s)) :   \* a call raises
                  /\ images' = images \ done
                  /\ cdn' = DestroyAll(cdn, done)
                  /\ folders' = folders
                  /\ last' = Response("delete_folder", "none", TRUE, 500, 0)
    /\ UNCHANGED <<coreVars, rq, temp, nextOid>>

\* the bucket and folder endpoints after an upload without background
\* removal, temporary files being kept (the background cleanup is left out)
BucketInit == ApiInit /\ KEEP_TEMP_FILES = TRUE

BucketNext ==
    \/ \E ep \in Endpoints, f \in {NoFolder, Str(1)} :
            Receive(1, ep, "A", FALSE, f, RawImage(1))
    \/ \E t \in Tasks : Complete(t)
    \/ \E v \in Vendors : CreateFolder(v)
    \/ \E s \in ImageIdArgs, v \in Vendors : AddToBucket(s, v)
    \/ \E s \in ImageIdArgs, v \in Vendors : RemoveFromBucket(s, v)
    \/ \E s \in ImageIdArgs, v \in Vendors, f \in {NoFolder, Str(1)} :
            UpdateImageMetadata(s, v, f)
    \/ \E s \in ImageIdArgs, v \in Vendors : ProcessImage(s, v)
    \/ \E s \in ImageIdArgs : DeleteFolder(s)

BucketSpec == BucketInit /\ [][BucketNext]_vars

\* ---------------------------------------------------------------- claims
InSection == {"lookup", "hit", "decode", "matte", "matting", "encode", "save",
              "return", "raise"}
InFlight == {t \in Tasks : pc[t] = "matting"}
Entries(m) == {<<m[i].k, m[i].v>> : i \in 1..Len(m)}

\* C1: the number of rembg.remove calls in flight never exceeds MAX_WORKERS,
\* whatever number of calls has been submitted.
C1_GateBound == Cardinality(InFlight) <= MAX_WORKERS

\* C1 witness: a matting call is in flight while at least MAX_WORKERS calls
\* have been submitted and are either matting or waiting to start.
C1_Witness ==
    /\ InFlight # {}
    /\ \E u \in Tasks : pc[u] = "acquire"
    /\ Cardinality({t \in Tasks : pc[t] \in {"acquire", "matting"}}) >= MAX_WORKERS

\* C2: every acquired permit is released on every exit path: the free
\* permits plus the calls inside the gated block always make MAX_WORKERS, the
\* calls inside the block are exactly the permit holders, and once no call is
\* inside the block all permits are free.
C2_NoPermitLeak ==
    /\ value + Cardinality(holders) = MAX_WORKERS
    /\ holders = {t \in Tasks : pc[t] \in InSection}
    /\ (\A t \in Tasks : pc[t] \notin InSection) => value = MAX_WORKERS

\* C2 witness: after a call failed in matting, a call for a different
\* identifier holds a permit.
C2_Witness ==
    \E t, u \in Tasks :
        /\ pc[t] = "failed" /\ err[t] = MattingFailure
        /\ u \in holders /\ pc[u] = "matte" /\ ident[u] # ident[t]

\* C3 (as claimed): a call that found its identifier in the cache returns
\* the cached bytes without holding a gate permit.
C3_HitWithoutPermit == \A t \in Tasks : pc[t] = "hit" => t \notin holders

\* C4 (as claimed): a call process(b, id) made after an equal call has
\* returned does not invoke the matting capability and returns the bytes the
\* earlier call returned.
C4_Idempotent ==
    \A t \in Tasks :
        later[t] =>
            /\ pc[t] # "matting"
            /\ pc[t] = "done" =>
                 \A s \in succeeded :
                     (s[1] = args[t].data /\ s[2] = args[t].hash) => s[3] = ret[t]

\* C5 (as claimed): a get(id) made immediately after put(id, X) returns X.
C5_PutThenGet == hist.obs.afterPut => hist.obs.val = hist.obs.expect

\* C6 (as claimed): when a call fails in decode, matting or encode, both
\* cache tiers hold exactly the entries they held when the call began.
C6_FailureLeavesCache ==
    \A t \in Tasks :
        (pc[t] = "raise" /\ err[t] \in {DecodeError, MattingFailure, EncodeError}) =>
            /\ Entries(memo) = Entries(snap[t].memo)
            /\ disk = snap[t].disk

\* C7 (as claimed): no call ends with a durable-tier I/O error.
C7_IOFailureHidden == \A t \in Tasks : err[t] # CacheIOError

\* C8: with KEEP_TEMP_FILES set, when a call that went through matting
\* returns, the file of its resolved identifier holds exactly the returned
\* bytes and no other file differs from when the call began; before the
\* encoding has succeeded the call has written nothing.
C8_DurableHoldsResult ==
    /\ [](\A t \in Tasks :
            pc[t] \in {"decode", "matte", "matting", "encode", "save"} =>
                disk = snap[t].disk)
    /\ [][\A t \in Tasks :
            (pc[t] = "return" /\ pc'[t] = "done" /\ KEEP_TEMP_FILES) =>
                /\ ret'[t] \in PngBytes
                /\ disk' = [snap[t].disk EXCEPT ![ident[t]] = ret'[t]]]_vars

\* C8 witness: a call that ran the matting has returned and its file holds
\* the returned PNG.
C8_Witness ==
    \E t \in Tasks :
        /\ KEEP_TEMP_FILES /\ pc[t] = "done" /\ matteCalls[ident[t]] > 0
        /\ ret[t] \in PngBytes /\ disk[ident[t]] = ret[t]

\* C9 (as claimed): after put(id, X), gets of id, put(id, Y), a get(id)
\* returns Y.
C9_PutOverwrites == hist.obs.n = 2 => hist.obs.val = hist.obs.expect

\* C10 (as claimed): two calls without identifier and with identical bytes
\* resolve to the same identifier.
C10_SameBytesSameId ==
    \A t, u \in Tasks :
        (/\ args[t].hash = NoHash /\ args[u].hash = NoHash
         /\ ident[t] # NoHash /\ ident[u] # NoHash
         /\ args[t].data = args[u].data) => ident[t] = ident[u]

\* C11 (as claimed): whatever identifier value the caller passes, the call
\* goes on with exactly that value.
C11_AnyIdVerbatim ==
    \A t \in Tasks :
        (args[t].hash # NoHash /\ ident[t] # NoHash) => ident[t] = args[t].hash

\* C11 (amended): a non-empty caller-supplied identifier is used verbatim:
\* the call goes on with that value, its lookup leaves that value as the most
\* recently used key of the memo and draws no uuid, and its save changes no
\* file but the one of that value.
C11_NonEmptyIdVerbatim ==
    /\ [](\A t \in Tasks :
            (args[t].hash \in CallerIds /\ ident[t] # NoHash) =>
                ident[t] = args[t].hash)
    /\ [][\A t \in Tasks :
            args[t].hash \in CallerIds =>
                /\ (pc[t] = "lookup" /\ pc'[t] \in {"hit", "decode"}) =>
                      /\ memo'[Len(memo')].k = args[t].hash
                      /\ nextUuid' = nextUuid
                /\ (pc[t] = "save" /\ pc'[t] \in {"return", "raise"}) =>
                      \A i \in Ids \ {args[t].hash} : disk'[i] = disk[i]]_vars

\* C11 witness: a call with a caller-supplied identifier went through
\* matting and returned, and the file of that identifier holds its result.
C11_Witness ==
    \E t \in Tasks :
        /\ args[t].hash \in CallerIds /\ pc[t] = "done"
        /\ matteCalls[args[t].hash] > 0 /\ disk[args[t].hash] = ret[t]
        /\ ret[t] \in PngBytes

\* C16: a decode, matting or encode failure ends the call with that error
\* and no byte result: a call that raises only ever goes on to fail with the
\* same error, an undecodable input always raises DecodeError, and on the
\* step that delivers the error the call's permit is given back.
C16_FailurePropagates ==
    /\ [](\A t \in Tasks :
            err[t] # NoErr => (pc[t] \in {"raise", "failed"} /\ ret[t] = None))
    /\ [][\A t \in Tasks :
            /\ (pc[t] = "decode" /\ ~CanDecode(args[t].data) /\ pc'[t] # "decode") =>
                  (pc'[t] = "raise" /\ err'[t] = DecodeError)
            /\ (pc[t] = "matting" /\ pc'[t] \notin {"matting", "encode"}) =>
                  (pc'[t] = "raise" /\ err'[t] = MattingFailure)
            /\ (pc[t] = "encode" /\ pc'[t] \notin {"encode", "save"}) =>
                  (pc'[t] = "raise" /\ err'[t] = EncodeError)
            /\ pc[t] = "raise" => pc'[t] \in {"raise", "failed"}
            /\ err[t] # NoErr => err'[t] = err[t]
            /\ (pc[t] = "raise" /\ pc'[t] = "failed") =>
                  /\ t \notin holders'
                  /\ value' = value + 1 \/ waiters # <<>>]_vars

\* C16 witness: a call has failed with an encode error and all permits are
\* free again.
C16_Witness ==
    \E t \in Tasks :
        pc[t] = "failed" /\ err[t] = EncodeError /\ value = MAX_WORKERS

C20_NoYieldInSection ==
    /\ [](\A t \in Tasks : pc[t] \in InSection => running = t)
    /\ [][\A t \in Tasks :
            pc[t] \in InSection => \A u \in Tasks \ {t} : pc'[u] = pc[u]]_vars

\* C20 witness: a call is saving its result while another call has been
\* made and has not started.
C20_Witness ==
    \E t, u \in Tasks : pc[t] = "save" /\ pc[u] = "acquire"

Finished(t) == pc[t] \in {"done", "failed"}

C12_TwoTierGet ==
    hist.obs.id # NoHash =>
        LET inMemory == hist.obs.inMem /\ hist.obs.memVal # None
        IN  /\ inMemory => hist.obs.val = hist.obs.memVal
            /\ (~inMemory /\ hist.obs.fileVal # None) =>
                    /\ hist.obs.val = hist.obs.fileVal
                    /\ [k |-> hist.obs.id, v |-> hist.obs.fileVal] \in
                           {memo[i] : i \in 1..Len(memo)}
            /\ (~inMemory /\ hist.obs.fileVal = None) => hist.obs.val = None

\* C13 (as claimed): after puts of CACHE_SIZE + 1 distinct identifiers, a get
\* of one of the CACHE_SIZE most recently put identifiers hits, and with
\* KEEP_TEMP_FILES unset a get of the least recently put one misses.
C13_LruEviction ==
    /\ hist.obs.lru = "hit" => hist.obs.val # None
    /\ (hist.obs.lru = "evicted" /\ ~KEEP_TEMP_FILES) => hist.obs.val = None

\* C14: the lru_cache never holds more than CACHE_SIZE entries.
C14_MemoryBounded == Cardinality(MemoKeys(memo)) <= CACHE_SIZE /\ Len(memo) <= CACHE_SIZE

\* C14 witness: the lru_cache is full and has evicted the identifier of a
\* call that returned.
C14_Witness ==
    \E t \in Tasks :
        /\ pc[t] = "done" /\ ident[t] \notin MemoKeys(memo)
        /\ Len(memo) = CACHE_SIZE

\* C15: with KEEP_TEMP_FILES unset no step of any operation changes a file.
C15_NoDurableWrite == [][~KEEP_TEMP_FILES => disk' = disk]_vars

\* C15 witness: with KEEP_TEMP_FILES unset a call that ran the matting and
\* save_to_cache has returned its PNG, and no file holds it.
C15_Witness ==
    \E t \in Tasks :
        /\ ~KEEP_TEMP_FILES /\ pc[t] = "done" /\ matteCalls[ident[t]] > 0
        /\ ret[t] \in PngBytes /\ disk[ident[t]] = None

\* C17 (as claimed): no get returns the empty content of a file that a put
\* had truncated and not written.
C17_NoTornRead == ~(hist.obs.torn /\ hist.obs.val = EmptyBytes)

\* C21: a call whose input decodes to a mode without alpha channel returns
\* a PNG of mode RGBA, whatever mode rembg.remove produced.
C21_AlphaNormalized ==
    \A t \in Tasks :
        (pc[t] = "done" /\ CanDecode(args[t].data) /\ args[t].data[3] # "RGBA") =>
            (ret[t] \in {Png(k, "RGBA") : k \in 1..NumImages})

\* C21 witness: a call of an RGB input under a fresh uuid (never a cache
\* hit) has run the matting and the encoding and has returned an RGBA PNG of
\* its picture.
C21_Witness ==
    \E t \in Tasks :
        /\ pc[t] = "done" /\ args[t] = [data |-> RawImage(1), hash |-> NoHash]
        /\ matteCalls[ident[t]] = 1
        /\ ret[t] = Png(1, "RGBA")

\* C25: whatever MAX_WORKERS is, at most one call holds a permit, at most
\* one is inside rembg.remove, and no call is ever suspended in acquire.
C25_OneAtATime ==
    /\ Cardinality(holders) <= 1
    /\ Cardinality(InFlight) <= 1
    /\ waiters = <<>>
    /\ \A t \in Tasks : pc[t] # "waiting"

\* C25 witness: with more than one permit configured, a call is inside
\* rembg.remove while another call is ready to enter the gate and a permit
\* is free.
C25_Witness ==
    \E t, u \in Tasks :
        /\ MAX_WORKERS >= 2 /\ value >= 1
        /\ pc[t] = "matting" /\ holders = {t}
        /\ pc[u] = "acquire"

\* C26 (as claimed): every value the lru_cache holds for an identifier
\* equals the present content of that identifier's file (None when absent).
C26_TiersCoherent ==
    \A i \in 1..Len(memo) : memo[i].v = read_file(disk, memo[i].k)

\* C24: a request with remove_bg false makes no remove_background call: it
\* takes no permit, runs no matting and leaves the semaphore, the lru_cache
\* and the cache files as they were; what it answers 200 for is the received
\* bytes, in the temporary file and in both uploaded assets.
C24_PlainUploadFrame ==
    /\ [](\A t \in Tasks :
            (rq[t].pc # "idle" /\ ~rq[t].rb) =>
                /\ pc[t] = "idle" /\ args[t] = NoArgs /\ t \notin holders
                /\ matteCalls[rq[t].hash] = 0
                /\ rq[t].hash \notin MemoKeys(memo) /\ disk[rq[t].hash] = None
                /\ rq[t].status = 200 =>
                      /\ temp[rq[t].hash] \in {None, rq[t].data}
                      /\ <<PublicId(rq[t].vendor, rq[t].hash), rq[t].data>> \in cdn
                      /\ <<Thumb(PublicId(rq[t].vendor, rq[t].hash)), rq[t].data>> \in cdn)
    /\ [][\A t \in Tasks :
            (rq'[t] # rq[t] /\ ~rq'[t].rb) =>
                UNCHANGED <<value, waiters, holders, memo, disk, matteCalls>>]_vars

\* C24 witness: a request with remove_bg false has been answered 200; the
\* kept temporary file and the uploaded asset hold the received bytes.
C24_Witness ==
    \E t \in Tasks :
        /\ rq[t].pc \in {"responded", "ended"} /\ ~rq[t].rb /\ rq[t].status = 200
        /\ KEEP_TEMP_FILES /\ temp[rq[t].hash] = RawImage(1)
        /\ <<PublicId(rq[t].vendor, rq[t].hash), RawImage(1)>> \in cdn
        /\ value = MAX_WORKERS /\ memo = <<>>

\* C27 (as claimed): with KEEP_TEMP_FILES unset, once every request and its
\* background task has ended, no input_<hash>.png file is left by a request
\* that succeeded or that stopped at a CDN upload, at the folder check or at
\* the metadata insert.
C27_TempFilesRemoved ==
    (~KEEP_TEMP_FILES /\ \A t \in Tasks : rq[t].pc \in {"idle", "ended"}) =>
        \A t \in Tasks :
            rq[t].out \in {"ok", "upload", "thumb", "folder", "insert"} =>
                temp[rq[t].hash] = None

\* C29 (as claimed): a remove_background_endpoint request whose folder_id
\* names no folder of the vendor ends with no metadata document and no
\* uploaded asset of its own.
C29_RejectedCleanly ==
    \A t \in Tasks :
        (/\ rq[t].pc \in {"responded", "ended"}
         /\ rq[t].ep = "remove_background_endpoint" /\ ~rq[t].folderOk) =>
            /\ \A d \in images : d.pub[2] # rq[t].hash
            /\ \A a \in cdn : a[1][2] # rq[t].hash

\* C22 (as claimed): after delete_folder(f) has answered 200, the folder
\* document is gone and no image document has f as its folder_id.
C22_FolderAndImagesDeleted ==
    (last.op = "delete_folder" /\ last.status = 200) =>
        /\ \A g \in folders : g.id # Oid(last.arg)
        /\ \A d \in images : d.folder \notin {Str(last.arg), Oid(last.arg)}

\* C23 (as claimed): when the lookup of add_to_bucket, remove_from_bucket,
\* update_image_metadata or process_image finds no document, the response
\* is 404 and the documents and the CDN are as before.
C23_NotFoundIs404 ==
    [][(/\ last'.op \in {"add_to_bucket", "remove_from_bucket",
                         "update_image_metadata", "process_image"}
        /\ ~last'.found) =>
            (last'.status = 404 /\ images' = images /\ cdn' = cdn)]_vars

\* C28 (as claimed): a remove_from_bucket request that one vendor is
\* answered 200 for leaves in place every document that another vendor
\* uploaded, and the asset and thumbnail it references on the CDN.
C28_OtherVendorsIntact ==
    [][(last'.op = "remove_from_bucket" /\ last'.status = 200) =>
          \A d \in images :
              (d.vendor # last'.vendor /\ d.pub[1] = d.vendor) =>
                  /\ d \in images'
                  /\ d.pub \in CdnIds(cdn) => d.pub \in CdnIds(cdn')
                  /\ Thumb(d.pub) \in CdnIds(cdn) => Thumb(d.pub) \in CdnIds(cdn')]_vars

TypeOK ==
    /\ value \in 0..MAX_WORKERS
    /\ Len(memo) <= CACHE_SIZE
    /\ Cardinality(MemoKeys(memo)) = Len(memo)

====
